---- MODULE Spec2Model ----
(***************************************************************************)
(* Response cache of the lead-generation chat front-end (src/app.py):     *)
(* the process-wide api_cache dictionary, its pickle mirror on disk, the  *)
(* cache key, and ConversationalChatClient.send_chat_message around them. *)
(*                                                                         *)
(* Handlers are coroutines of one event loop.  send_chat_message holds no *)
(* await: requests.post blocks the loop, so between its cache lookup and   *)
(* its return nothing else of the process runs; only the clock advances.   *)
(* The model splits the call into its lookup step (SendGet) and its        *)
(* network step (SendPost) and keeps every other handler disabled while a  *)
(* call is in flight.                                                      *)
(***************************************************************************)
EXTENDS Integers, FiniteSets, Sequences, TLC

VARIABLES
    proc,       \* "boot" (module not yet imported), "running", "crashed"
    now,        \* time.time()
    api_cache,  \* the global dict: cache key -> [response, timestamp]
    file,       \* cache/api_cache.pkl
    call,       \* the send_chat_message invocation in flight, or NoCall
    faults,     \* how many persists or unlinks of this process raised
    lastOk,     \* the last decoded 2xx result since start / clear
    stream,     \* per chat session: the message being streamed to the UI
    message_history,  \* per chat session: cl.user_session["message_history"]
    tasks,      \* the process_conversation_message handlers in progress
    last        \* the most recent step and what it observed

vars == <<proc, now, api_cache, file, call, faults, lastOk, stream,
          message_history, tasks, last>>

----------------------------------------------------------------------------
(* Bounds and domains                                                      *)

CACHE_DURATION == 3600

MaxTime == 3601

\* I/O faults (a persist or an unlink that raises) injected per process.
MaxFaults == 1

\* The instants the clock is sampled at: each multiple of the cache
\* duration and the second after it, so that the ages CACHE_DURATION - 1,
\* CACHE_DURATION and CACHE_DURATION + 1 all occur.
Times == {t \in 0..MaxTime : t % CACHE_DURATION \in {0, 1}}

Sessions == {"s1", "s2"}

DEFAULT_MODEL == "deepseek-r1-distill-llama-70b"

Models == {DEFAULT_MODEL, "m1"}

\* Message lists a handler sends: one user turn.
MsgLists == {<<[role |-> "user", content |-> "find leads in fintech"]>>}

----------------------------------------------------------------------------
(* Python values                                                           *)

None == [type |-> "NoneType"]

NoErr == [prefix |-> "", code |-> 0, text |-> ""]

\* A dict with the keys the callers read; "absent" marks a missing key.
Dict(status, message, error) ==
    [type |-> "dict", status |-> status, message |-> message, error |-> error]

EmptyDict == Dict("absent", "absent", NoErr)

\* Raw bodies the chat endpoint may answer with.
Bodies == {"null", "{}", "{\"message\": \"ok\"}", "<html>Bad Gateway</html>"}

\* Bodies whose message runs over several words, two of them separated by
\* two spaces, and one that starts with a space.
WordyBodies == {"{\"message\": \"a  b c\"}", "{\"message\": \" d\"}"}

Decodable(text) ==
    text \in {"null", "{}", "{\"message\": \"ok\"}"} \cup WordyBodies

\* response.json() on a decodable body.
ResponseJson(text) ==
    CASE text = "null" -> None
      [] text = "{}" -> EmptyDict
      [] text = "{\"message\": \"ok\"}" -> Dict("absent", "ok", NoErr)
      [] text = "{\"message\": \"a  b c\"}" -> Dict("absent", "a  b c", NoErr)
      [] text = "{\"message\": \" d\"}" -> Dict("absent", " d", NoErr)

StatusCodes == {200, 201, 500}

TransportFaults == {"ReadTimeout", "ConnectionError"}

\* What requests.post does: raises, or returns a response.
HttpOutcomes ==
    [kind : {"exception"}, exc : TransportFaults, status : {0}, text : {""}]
        \cup
    [kind : {"response"}, exc : {""}, status : StatusCodes, text : Bodies]

\* The class response.json() raises on an undecodable body depends on the
\* installed requests: requests.exceptions.JSONDecodeError (a
\* RequestException) or a plain ValueError.
JsonErrorClasses == {"RequestException", "ValueError"}

----------------------------------------------------------------------------
(* Cache key                                                               *)

\* json.dumps({"messages": messages, "model": model}, sort_keys=True):
\* the keys in sorted order, each followed by its value.
JsonDumpsSorted(messages, model) ==
    <<"messages", messages, "model", model>>

\* hashlib.md5(...).hexdigest(), taken to be collision-free on the bounded
\* domain: the digest is identified by the text it digests.
Md5Hex(text) == <<"md5", text>>

\* A key that also digests the session id.
get_cache_key_with_session(messages, session_id, model) ==
    Md5Hex(<<"messages", messages, "model", model, "session_id", session_id>>)

get_cache_key(messages, session_id, model) ==
    Md5Hex(JsonDumpsSorted(messages, model))

Keys == {get_cache_key(m, s, md) : m \in MsgLists, s \in Sessions, md \in Models}

----------------------------------------------------------------------------
(* Persisted file                                                          *)

EmptyCache == [k \in {} |-> None]

NoFile == [kind |-> "absent", data |-> {}]

\* A blob pickle.load raises on (truncated, garbage).
CorruptBlob == [kind |-> "corrupt", data |-> {}]

\* A well-formed pickle of something that is no key -> entry mapping.
ForeignBlob == [kind |-> "foreign", data |-> {}]

\* pickle.dump of the dictionary: one item per key.
PickleDump(cache_data) ==
    [kind |-> "pickle",
     data |-> {<<k, cache_data[k].response, cache_data[k].timestamp>> :
                  k \in DOMAIN cache_data}]

\* pickle.load of a blob written by PickleDump.
PickleLoad(data) ==
    [k \in {item[1] : item \in data} |->
        LET item == CHOOSE i \in data : i[1] = k
        IN  [response |-> item[2], timestamp |-> item[3]]]

\* load_cache_from_file: what it returns.  "dict" is a cache mapping;
\* "foreign" is whatever else the pickle held, returned as it is.
load_cache_from_file(f) ==
    CASE f.kind = "absent" -> [kind |-> "dict", value |-> EmptyCache]
      [] f.kind = "corrupt" -> [kind |-> "dict", value |-> EmptyCache]
      [] f.kind = "foreign" -> [kind |-> "foreign", value |-> EmptyCache]
      [] f.kind = "pickle" -> [kind |-> "dict", value |-> PickleLoad(f.data)]

\* How one save_cache_to_file call can end: written; open() raised (file
\* untouched); pickle.dump raised after open() truncated the file; the
\* pickle was written and the JSON copy beside it (test_reponse.json, not
\* read by the program) raised.
SaveOutcomes == {"ok", "open_fail", "dump_fail", "copy_fail"}

save_cache_to_file(cache_data, outcome, f) ==
    CASE outcome = "ok" -> PickleDump(cache_data)
      [] outcome = "open_fail" -> f
      [] outcome = "dump_fail" -> CorruptBlob
      [] outcome = "copy_fail" -> PickleDump(cache_data)

\* A save whose failure escapes to the caller.
SaveRaisesOnFailure(outcome) == outcome \in SaveOutcomes \ {"ok"}

\* Whether save_cache_to_file raises to its caller: its except clause logs
\* the error and returns.
SaveRaises(outcome) == FALSE

\* The outcomes to enumerate for a step that saves, or does not, after n
\* faults.
OutcomesOf(saves, n) ==
    IF ~saves THEN {"none"}
    ELSE IF n < MaxFaults THEN SaveOutcomes ELSE {"ok"}

FaultsAfter(saves, outcome, n) ==
    IF saves /\ outcome # "ok" THEN n + 1 ELSE n

FileAfter(saves, cache_data, outcome, f) ==
    IF saves THEN save_cache_to_file(cache_data, outcome, f) ELSE f

----------------------------------------------------------------------------
(* Cache store                                                             *)

Remove(cache, key) == [k \in DOMAIN cache \ {key} |-> cache[k]]

\* A cleanup that stamps the entries it keeps with the time of the cleanup.
cleanup_expired_cache_restamp(cache_data, current_time) ==
    [k \in {c \in DOMAIN cache_data :
                current_time - cache_data[c].timestamp < CACHE_DURATION}
        |-> [response |-> cache_data[k].response, timestamp |-> current_time]]

\* A cleanup that keeps an entry aged exactly CACHE_DURATION.
cleanup_expired_cache_le(cache_data, current_time) ==
    [k \in {c \in DOMAIN cache_data :
                current_time - cache_data[c].timestamp <= CACHE_DURATION}
        |-> cache_data[k]]

\* cleanup_expired_cache: the dictionary it returns.
cleanup_expired_cache(cache_data, current_time) ==
    [k \in {c \in DOMAIN cache_data :
                current_time - cache_data[c].timestamp < CACHE_DURATION}
        |-> cache_data[k]]

\* cleanup_expired_cache: expired_count.
ExpiredCount(cache_data, current_time) ==
    Cardinality({c \in DOMAIN cache_data :
        ~(current_time - cache_data[c].timestamp < CACHE_DURATION)})

\* A lookup that still serves an entry aged exactly CACHE_DURATION.
get_cached_response_le(cache, cache_key, t) ==
    IF cache_key \in DOMAIN cache
    THEN IF t - cache[cache_key].timestamp <= CACHE_DURATION
         THEN [branch |-> "HIT", value |-> cache[cache_key].response,
               cache |-> cache, saves |-> FALSE]
         ELSE [branch |-> "EXPIRED", value |-> None,
               cache |-> Remove(cache, cache_key), saves |-> TRUE]
    ELSE [branch |-> "MISS", value |-> None, cache |-> cache, saves |-> FALSE]

\* A lookup that drops an expired entry from memory without saving.
get_cached_response_nosave(cache, cache_key, t) ==
    IF cache_key \in DOMAIN cache
    THEN IF t - cache[cache_key].timestamp < CACHE_DURATION
         THEN [branch |-> "HIT", value |-> cache[cache_key].response,
               cache |-> cache, saves |-> FALSE]
         ELSE [branch |-> "EXPIRED", value |-> None,
               cache |-> Remove(cache, cache_key), saves |-> FALSE]
    ELSE [branch |-> "MISS", value |-> None, cache |-> cache, saves |-> FALSE]

\* get_cached_response: the branch taken, the value returned, the
\* dictionary afterwards and whether it was saved.
get_cached_response(cache, cache_key, t) ==
    IF cache_key \in DOMAIN cache
    THEN IF t - cache[cache_key].timestamp < CACHE_DURATION
         THEN [branch |-> "HIT", value |-> cache[cache_key].response,
               cache |-> cache, saves |-> FALSE]
         ELSE [branch |-> "EXPIRED", value |-> None,
               cache |-> Remove(cache, cache_key), saves |-> TRUE]
    ELSE [branch |-> "MISS", value |-> None, cache |-> cache, saves |-> FALSE]

\* set_cached_response: the dictionary afterwards (it is then saved).
set_cached_response(cache, cache_key, response, t) ==
    [k \in DOMAIN cache \cup {cache_key} |->
        IF k = cache_key THEN [response |-> response, timestamp |-> t]
        ELSE cache[k]]

\* show_cache_info: the counts it reports.
Stats(cache, current_time) ==
    LET active == {k \in DOMAIN cache :
                      current_time - cache[k].timestamp < CACHE_DURATION}
    IN  [total |-> Cardinality(DOMAIN cache),
         active |-> Cardinality(active),
         expired |-> Cardinality(DOMAIN cache \ active)]

----------------------------------------------------------------------------
(* send_chat_message                                                       *)

ApiError(status_code, text) ==
    Dict("error", "absent",
         [prefix |-> "API request failed", code |-> status_code, text |-> text])

NetworkError(msg) ==
    Dict("error", "absent",
         [prefix |-> "Network error occurred", code |-> 0, text |-> msg])

OtherError(msg) ==
    Dict("error", "absent",
         [prefix |-> "An error occurred", code |-> 0, text |-> msg])

\* What a call yields to its caller if an exception escapes it.
Propagated == [type |-> "raised"]

\* requests.post, then the response.json() inside the debug log line: the
\* f-string is evaluated whatever the log level and whatever the status.
Fetch(o, cls) ==
    IF o.kind = "exception"
    THEN [raised |-> TRUE, cls |-> "RequestException", msg |-> o.exc]
    ELSE IF ~Decodable(o.text)
         THEN [raised |-> TRUE, cls |-> cls, msg |-> "Expecting value"]
         ELSE [raised |-> FALSE, cls |-> "", msg |-> ""]

\* if response.status_code == 200
IsSuccess(status_code) == status_code = 200

\* A handler with the first except clause only.
HandleRequestExceptionOnly(cls, msg) ==
    IF cls = "RequestException" THEN NetworkError(msg) ELSE Propagated

\* The two except clauses.
Handle(cls, msg) ==
    IF cls = "RequestException" THEN NetworkError(msg) ELSE OtherError(msg)

\* A call that caches whatever decodes, without looking at the status.
CachesAnyStatus(o, cls) == ~Fetch(o, cls).raised

\* Whether the call reaches set_cached_response.
Caches(o, cls) == ~Fetch(o, cls).raised /\ IsSuccess(o.status)

\* The value the call returns after the network step.
Returns(o, cls) ==
    LET f == Fetch(o, cls)
    IN  IF f.raised THEN Handle(f.cls, f.msg)
        ELSE IF IsSuccess(o.status) THEN ResponseJson(o.text)
        ELSE ApiError(o.status, o.text)

----------------------------------------------------------------------------
(* send_chat_message_stream                                                *)

\* The characters of the message texts of the payloads.
Chars(text) ==
    CASE text = "ok" -> <<"o", "k">>
      [] text = "a  b c" -> <<"a", " ", " ", "b", " ", "c">>
      [] text = " d" -> <<" ", "d">>
      [] text = "" -> <<>>

\* response.get("message", "")
MessageContent(response) ==
    IF response.message = "absent" THEN <<>> ELSE Chars(response.message)

\* str.split(' '): the pieces between single spaces, empty ones included.
RECURSIVE Split(_)
Split(chars) ==
    IF \A i \in 1..Len(chars) : chars[i] # " "
    THEN <<chars>>
    ELSE LET i == CHOOSE j \in 1..Len(chars) :
                      /\ chars[j] = " "
                      /\ \A h \in 1..(j - 1) : chars[h] # " "
         IN  <<SubSeq(chars, 1, i - 1)>>
                 \o Split(SubSeq(chars, i + 1, Len(chars)))

\* What msg.stream_token is given: text, or an error description.
TextToken(chars) == [kind |-> "text", chars |-> chars, error |-> NoErr]

NoticeToken == [kind |-> "no content", chars |-> <<>>, error |-> NoErr]

ErrorToken(error) == [kind |-> "error", chars |-> <<>>, error |-> error]

\* A word loop that puts the space after each word.
WordTokensSpaceAfter(words) ==
    [i \in 1..Len(words) |-> TextToken(words[i] \o <<" ">>)]

\* for i, word in enumerate(words): word, then ' ' + word
WordTokens(words) ==
    [i \in 1..Len(words) |->
        TextToken(IF i = 1 THEN words[i] ELSE <<" ">> \o words[i])]

\* The tokens send_chat_message_stream emits, in order, for the value
\* send_chat_message returned.  None has no get(): the outer except
\* streams the error.
StreamTokens(response) ==
    IF response = None
    THEN <<ErrorToken(OtherError("'NoneType' object has no attribute 'get'").error)>>
    ELSE IF response.status = "error"
         THEN <<ErrorToken(response.error)>>
         ELSE IF MessageContent(response) = <<>>
              THEN <<NoticeToken>>
              ELSE WordTokens(Split(MessageContent(response)))

\* The text the UI has shown after the tokens.
RECURSIVE Concat(_)
Concat(tokens) ==
    IF tokens = <<>> THEN <<>>
    ELSE tokens[1].chars \o Concat(Tail(tokens))

\* A chat session before on_chat_start.
NoStream == [phase |-> "new", response |-> None, hit |-> FALSE, sent |-> <<>>]

\* The call is awaited: nothing is streamed yet.
Waiting == [phase |-> "waiting", response |-> None, hit |-> FALSE,
            sent |-> <<>>]

\* send_chat_message has returned response.
Begin(response, hit) ==
    [phase |-> "streaming", response |-> response, hit |-> hit, sent |-> <<>>]

----------------------------------------------------------------------------
(* main and process_conversation_message                                   *)

\* What a user types: a request, the two cache commands main handles, and
\* the command the cache-info message advertises besides them.
UserInputs ==
    {"find leads in fintech", "/cache-info", "/clear-cache", "/cleanup-cache"}

\* main: the handler the startswith tests pick.  "/cleanup-cache" starts
\* with none of the prefixes tested.
Handler(user_input) ==
    CASE user_input = "/cache-info" -> "show_cache_info"
      [] user_input = "/clear-cache" -> "clear_cache"
      [] OTHER -> "process_conversation_message"

\* Whether the text is a slash command.
IsSlashCommand(user_input) ==
    user_input \in {"/cache-info", "/clear-cache", "/cleanup-cache"}

UserTurn(content) == [role |-> "user", content |-> content]

AssistantTurn(content) == [role |-> "assistant", content |-> content]

\* response.get("message", "")
MessageText(response) ==
    IF response.message = "absent" THEN "" ELSE response.message

\* What send_chat_message_stream returns for the value send_chat_message
\* returned: the value, or the error dict of its except clause.
StreamReturns(response) ==
    IF response = None
    THEN OtherError("'NoneType' object has no attribute 'get'")
    ELSE response

----------------------------------------------------------------------------
(* get_available_models                                                    *)

\* Raw bodies the models endpoint may answer with.
ModelBodies == {"{\"models\": {\"m1\": \"m1\"}}", "<html>Bad Gateway</html>"}

ModelsDecodable(text) == text = "{\"models\": {\"m1\": \"m1\"}}"

\* What requests.get does.
ModelOutcomes ==
    [kind : {"exception"}, exc : TransportFaults, status : {0}, text : {""}]
        \cup
    [kind : {"response"}, exc : {""}, status : StatusCodes, text : ModelBodies]

ModelsDict(error, models) ==
    [type |-> "dict", error |-> error, models |-> models]

\* {DEFAULT_MODEL: DEFAULT_MODEL}
FallbackModels == [m \in {DEFAULT_MODEL} |-> m]

\* response.json() on the decodable body.
ModelsJson(text) == ModelsDict(NoErr, [m \in {"m1"} |-> m])

\* A get_available_models with the RequestException clause only.
get_available_models_no_catchall(o, cls) ==
    IF o.kind = "exception"
    THEN ModelsDict([prefix |-> "Network error fetching models", code |-> 0,
                     text |-> o.exc], FallbackModels)
    ELSE IF o.status = 200
         THEN IF ModelsDecodable(o.text) THEN ModelsJson(o.text)
              ELSE IF cls = "RequestException"
                   THEN ModelsDict([prefix |-> "Network error fetching models",
                                    code |-> 0, text |-> "Expecting value"],
                                   FallbackModels)
                   ELSE Propagated
         ELSE ModelsDict([prefix |-> "Failed to fetch models",
                          code |-> o.status, text |-> o.text], FallbackModels)

\* get_available_models: the value it returns.  The body is decoded only
\* after the status test.
get_available_models(o, cls) ==
    IF o.kind = "exception"
    THEN ModelsDict([prefix |-> "Network error fetching models", code |-> 0,
                     text |-> o.exc], FallbackModels)
    ELSE IF o.status = 200
         THEN IF ModelsDecodable(o.text) THEN ModelsJson(o.text)
              ELSE ModelsDict([prefix |-> IF cls = "RequestException"
                                          THEN "Network error fetching models"
                                          ELSE "Error fetching models",
                               code |-> 0, text |-> "Expecting value"],
                              FallbackModels)
         ELSE ModelsDict([prefix |-> "Failed to fetch models",
                          code |-> o.status, text |-> o.text], FallbackModels)

----------------------------------------------------------------------------
(* State machine                                                           *)

NoCall == [session |-> "", key |-> <<>>, start |-> 0]

\* Handlers of process_conversation_message that can be in progress at a
\* time.
MaxTasks == 2

\* Turn pairs a session's history holds when it may still send a message.
MaxPairs == 1

Tasks == 1..MaxTasks

\* A handler slot with no message in progress.
NoTask == [phase |-> "free", session |-> "", user_input |-> "",
           messages |-> <<>>, response |-> None, left |-> 0, start |-> 0]

NoLog == [session |-> "", key |-> <<>>, response |-> None, time |-> 0]

\* Before the module is imported: the cache file is absent, unreadable,
\* or a pickle of something else.  Blobs of real caches arise from runs.
Init ==
    /\ proc = "boot"
    /\ now = 0
    /\ api_cache = EmptyCache
    /\ file \in {NoFile, CorruptBlob, ForeignBlob}
    /\ call = NoCall
    /\ faults = 0
    /\ lastOk = NoLog
    /\ stream = [s \in Sessions |-> NoStream]
    /\ message_history = [s \in Sessions |-> <<>>]
    /\ tasks = [h \in Tasks |-> NoTask]
    /\ last = [op |-> "init", mem |-> EmptyCache, clean |-> TRUE]

\* api_cache = load_cache_from_file(); api_cache = cleanup_expired_cache(api_cache)
\* A foreign object has no entries to iterate: cleanup raises and the
\* import of the module fails.
Startup ==
    /\ proc = "boot"
    /\ LET loaded == load_cache_from_file(file)
           cleaned == cleanup_expired_cache(loaded.value, now)
           saves == ExpiredCount(loaded.value, now) > 0
       IN  IF loaded.kind # "dict"
           THEN /\ proc' = "crashed"
                /\ last' = [op |-> "startup", crashed |-> TRUE,
                            file0 |-> file]
                /\ UNCHANGED <<api_cache, file, faults>>
           ELSE \E so \in OutcomesOf(saves, faults) :
                /\ proc' = IF saves /\ SaveRaises(so)
                            THEN "crashed" ELSE "running"
                /\ api_cache' = IF saves /\ SaveRaises(so)
                                 THEN loaded.value ELSE cleaned
                /\ file' = FileAfter(saves, cleaned, so, file)
                /\ faults' = FaultsAfter(saves, so, faults)
                /\ last' = [op |-> "startup",
                            crashed |-> (saves /\ SaveRaises(so)),
                            prev |-> last.mem, prevClean |-> last.clean,
                            loaded |-> loaded.value, saved |-> saves,
                            file0 |-> file, save |-> so]
    /\ UNCHANGED <<now, call, lastOk, stream, message_history, tasks>>

\* The process ends (whatever it was doing) and is started again later.
Restart(t) ==
    /\ proc # "boot"
    /\ t >= now
    /\ proc' = "boot"
    /\ now' = t
    /\ api_cache' = EmptyCache
    /\ call' = NoCall
    /\ faults' = 0
    /\ lastOk' = NoLog
    /\ stream' = [s \in Sessions |-> NoStream]
    /\ message_history' = [s \in Sessions |-> <<>>]
    /\ tasks' = [h \in Tasks |-> NoTask]
    /\ last' = [op |-> "restart", mem |-> api_cache,
                clean |-> (proc = "running" /\ faults = 0)]
    /\ UNCHANGED file

\* The clock advances, also while a call blocks the loop.
Tick(t) ==
    /\ proc = "running"
    /\ t > now
    /\ now' = t
    /\ last' = [op |-> "tick"]
    /\ lastOk' = IF t - lastOk.time < CACHE_DURATION THEN lastOk ELSE NoLog
    /\ UNCHANGED <<proc, api_cache, file, call, faults, stream,
                   message_history, tasks>>

\* send_chat_message up to "if cached_response is not None".  With
\* streamed, the call is the one send_chat_message_stream awaits for a
\* session that has no message in progress.
SendGetStep(s, messages, model, streamed) ==
    /\ proc = "running"
    /\ call = NoCall
    /\ streamed => stream[s].phase \in {"idle", "done"}
    /\ LET key == get_cache_key(messages, s, model)
           r == get_cached_response(api_cache, key, now)
       IN  \E so \in OutcomesOf(r.saves, faults) :
           LET raised == r.saves /\ SaveRaises(so)
               hit == r.value # None /\ ~raised
           IN
           /\ api_cache' = r.cache
           /\ file' = FileAfter(r.saves, r.cache, so, file)
           /\ faults' = FaultsAfter(r.saves, so, faults)
           /\ call' = IF hit \/ raised THEN NoCall
                      ELSE [session |-> s, key |-> key, start |-> now]
           /\ last' = [op |-> "get", session |-> s, key |-> key,
                       messages |-> messages, model |-> model,
                       start |-> now, branch |-> r.branch, got |-> r.value,
                       age |-> IF key \in DOMAIN api_cache
                               THEN now - api_cache[key].timestamp ELSE -1,
                       save |-> so,
                       done |-> (hit \/ raised), network |-> FALSE,
                       result |-> IF raised THEN Handle("OSError", so)
                                  ELSE r.value]
           /\ stream' = IF ~streamed THEN stream
                        ELSE [stream EXCEPT ![s] =
                                 IF raised THEN Begin(Handle("OSError", so), FALSE)
                                 ELSE IF hit THEN Begin(r.value, TRUE)
                                 ELSE Waiting]
    /\ UNCHANGED <<proc, now, lastOk>>

SendGet(s, messages, model) ==
    /\ SendGetStep(s, messages, model, FALSE)
    /\ UNCHANGED <<message_history, tasks>>

StreamGet(s, messages, model) ==
    /\ SendGetStep(s, messages, model, TRUE)
    /\ UNCHANGED <<message_history, tasks>>

\* send_chat_message from requests.post to its return.  With logged, the
\* step also notes a decoded 2xx result in lastOk; with streamed, the
\* value goes back to send_chat_message_stream.
SendPostStep(o, cls, logged, streamed) ==
    /\ proc = "running"
    /\ call # NoCall
    /\ (cls = "ValueError" => (o.kind = "response" /\ ~Decodable(o.text)))
    /\ LET key == call.key
           saves == Caches(o, cls)
           cache == IF saves
                    THEN set_cached_response(api_cache, key,
                                             ResponseJson(o.text), now)
                    ELSE api_cache
       IN  \E so \in OutcomesOf(saves, faults) :
           /\ api_cache' = cache
           /\ file' = FileAfter(saves, cache, so, file)
           /\ faults' = FaultsAfter(saves, so, faults)
           /\ lastOk' = IF /\ logged
                           /\ o.kind = "response"
                           /\ o.status \in 200..299
                           /\ Decodable(o.text)
                        THEN [session |-> call.session, key |-> key,
                              response |-> ResponseJson(o.text),
                              time |-> now]
                        ELSE lastOk
           /\ last' = [op |-> "post", session |-> call.session, key |-> key,
                       start |-> call.start, outcome |-> o, cached |-> saves,
                       save |-> so,
                       done |-> TRUE, network |-> TRUE,
                       result |-> IF saves /\ SaveRaises(so)
                                  THEN Handle("OSError", so)
                                  ELSE Returns(o, cls)]
           /\ stream' = IF ~streamed THEN stream
                        ELSE [stream EXCEPT ![call.session] =
                                 Begin(IF saves /\ SaveRaises(so)
                                       THEN Handle("OSError", so)
                                       ELSE Returns(o, cls), FALSE)]
    /\ call' = NoCall
    /\ UNCHANGED <<proc, now>>

SendPost(o, cls) ==
    /\ SendPostStep(o, cls, FALSE, FALSE)
    /\ UNCHANGED <<message_history, tasks>>

SendPostLogged(o, cls) ==
    /\ SendPostStep(o, cls, TRUE, FALSE)
    /\ UNCHANGED <<message_history, tasks>>

StreamPost(o, cls) ==
    /\ SendPostStep(o, cls, TRUE, TRUE)
    /\ UNCHANGED <<message_history, tasks>>

\* One stream_token of send_chat_message_stream (a word, or the notice or
\* error it streams instead); in the word loop the awaits on stream_token
\* and asyncio.sleep hand the loop to others.
Emit(s) ==
    /\ proc = "running"
    /\ call = NoCall
    /\ stream[s].phase = "streaming"
    /\ LET tokens == StreamTokens(stream[s].response)
           sent == Append(stream[s].sent, tokens[Len(stream[s].sent) + 1])
       IN  /\ stream' = [stream EXCEPT
                            ![s].sent = sent,
                            ![s].phase = IF Len(sent) = Len(tokens)
                                         THEN "done" ELSE "streaming"]
           /\ last' = [op |-> "emit", session |-> s,
                       token |-> sent[Len(sent)]]
    /\ UNCHANGED <<proc, now, api_cache, file, call, faults, lastOk,
                   message_history, tasks>>

\* process_conversation_message up to "await msg.send()": the history is
\* read and the messages to send are built from it.  The handler takes the
\* first free slot.
ProcessStart(h, s, user_input) ==
    /\ proc = "running"
    /\ call = NoCall
    /\ stream[s].phase # "new"
    /\ tasks[h].phase = "free"
    /\ \A g \in 1..(h - 1) : tasks[g].phase # "free"
    /\ Len(message_history[s]) < 2 * MaxPairs
    /\ tasks' = [tasks EXCEPT ![h] =
                    [phase |-> "sent", session |-> s,
                     user_input |-> user_input,
                     messages |-> Append(message_history[s],
                                         UserTurn(user_input)),
                     response |-> None, left |-> 0, start |-> now]]
    /\ last' = [op |-> "main", session |-> s, user_input |-> user_input]
    /\ UNCHANGED <<proc, now, api_cache, file, call, faults, lastOk, stream,
                   message_history>>

\* The handler after the call returned response: the tokens to stream.
Streaming(task, response) ==
    [task EXCEPT !.phase = "streaming",
                 !.response = StreamReturns(response),
                 !.left = Len(StreamTokens(response))]

\* The handler resumes after msg.send() and enters send_chat_message with
\* the session's model (the default one).
TaskGet(h) ==
    /\ tasks[h].phase = "sent"
    /\ SendGetStep(tasks[h].session, tasks[h].messages, DEFAULT_MODEL, FALSE)
    /\ tasks' = [tasks EXCEPT ![h] =
                    IF last'.done THEN Streaming(tasks[h], last'.result)
                    ELSE [tasks[h] EXCEPT !.phase = "calling"]]
    /\ UNCHANGED message_history

\* The blocking call of the handler in flight returns.
TaskPost(o, cls) ==
    /\ \E h \in Tasks : tasks[h].phase = "calling"
    /\ SendPostStep(o, cls, FALSE, FALSE)
    /\ tasks' = [h \in Tasks |->
                    IF tasks[h].phase = "calling"
                    THEN Streaming(tasks[h], last'.result) ELSE tasks[h]]
    /\ UNCHANGED message_history

\* One token is streamed; the awaits let other handlers run.
TaskEmit(h) ==
    /\ proc = "running"
    /\ call = NoCall
    /\ tasks[h].phase = "streaming"
    /\ tasks[h].left > 0
    /\ tasks' = [tasks EXCEPT ![h].left = tasks[h].left - 1]
    /\ last' = [op |-> "token", session |-> tasks[h].session]
    /\ UNCHANGED <<proc, now, api_cache, file, call, faults, lastOk, stream,
                   message_history>>

\* send_chat_message_stream has returned: unless the response is an
\* error, the user turn and the assistant turn are appended to the list of
\* the session, one after the other with no await between.
TaskFinish(h) ==
    /\ proc = "running"
    /\ call = NoCall
    /\ tasks[h].phase = "streaming"
    /\ tasks[h].left = 0
    /\ LET task == tasks[h]
           appends == task.response.status # "error"
       IN  /\ message_history' =
                 IF appends
                 THEN [message_history EXCEPT ![task.session] =
                          Append(Append(@, UserTurn(task.user_input)),
                                 AssistantTurn(MessageText(task.response)))]
                 ELSE message_history
           /\ last' = [op |-> "finish", session |-> task.session,
                       user_input |-> task.user_input, start |-> task.start,
                       response |-> task.response, appended |-> appends]
    /\ tasks' = [tasks EXCEPT ![h] = NoTask]
    /\ UNCHANGED <<proc, now, api_cache, file, call, faults, lastOk, stream>>

\* start_chat: a session begins with an empty message history and fetches
\* the models; requests.get blocks the loop as requests.post does.
StartChat(s, o, cls) ==
    /\ proc = "running"
    /\ call = NoCall
    /\ stream[s].phase = "new"
    /\ (cls = "ValueError" => (o.kind = "response" /\ ~ModelsDecodable(o.text)))
    /\ stream' = [stream EXCEPT ![s].phase = "idle"]
    /\ last' = [op |-> "models", session |-> s, outcome |-> o,
                result |-> get_available_models(o, cls)]
    /\ message_history' = [message_history EXCEPT ![s] = <<>>]
    /\ UNCHANGED <<proc, now, api_cache, file, call, faults, lastOk, tasks>>

\* A clear that empties the dictionary and leaves the file in place.
ClearCacheKeepsFile(unlinkOk) ==
    /\ proc = "running"
    /\ call = NoCall
    /\ (file.kind = "absent" \/ faults >= MaxFaults => unlinkOk)
    /\ api_cache' = EmptyCache
    /\ lastOk' = NoLog
    /\ last' = [op |-> "clear", unlinked |-> unlinkOk,
                cache_count |-> Cardinality(DOMAIN api_cache),
                file0 |-> file]
    /\ UNCHANGED <<proc, now, call, file, faults, stream,
                   message_history, tasks>>

\* clear_cache: api_cache.clear(), then unlink the file if it exists.  An
\* unlink that raises is caught by the handler, which reports the error;
\* the file stays.
ClearCache(unlinkOk) ==
    /\ proc = "running"
    /\ call = NoCall
    /\ (file.kind = "absent" \/ faults >= MaxFaults => unlinkOk)
    /\ api_cache' = EmptyCache
    /\ file' = IF unlinkOk THEN NoFile ELSE file
    /\ faults' = IF unlinkOk THEN faults ELSE faults + 1
    /\ lastOk' = NoLog
    /\ last' = [op |-> "clear", unlinked |-> unlinkOk,
                cache_count |-> Cardinality(DOMAIN api_cache),
                file0 |-> file]
    /\ UNCHANGED <<proc, now, call, stream, message_history, tasks>>

\* A cache-info handler that prunes what it counts as expired.
ShowCacheInfoPruning ==
    /\ proc = "running"
    /\ call = NoCall
    /\ api_cache' = cleanup_expired_cache(api_cache, now)
    /\ last' = [op |-> "stats", stats |-> Stats(api_cache, now)]
    /\ UNCHANGED <<proc, now, file, call, faults, lastOk, stream,
                   message_history, tasks>>

\* show_cache_info: reads the dictionary, writes nothing.
ShowCacheInfo ==
    /\ proc = "running"
    /\ call = NoCall
    /\ last' = [op |-> "stats", stats |-> Stats(api_cache, now)]
    /\ UNCHANGED <<proc, now, api_cache, file, call, faults, lastOk, stream,
                   message_history, tasks>>

\* main: a message of session s arrives.
Main(h, s, user_input) ==
    IF Handler(user_input) = "show_cache_info" THEN ShowCacheInfo
    ELSE IF Handler(user_input) = "clear_cache" THEN ClearCache(TRUE)
    ELSE ProcessStart(h, s, user_input)

Next ==
    \/ Startup
    \/ \E t \in Times : Restart(t)
    \/ \E t \in Times : Tick(t)
    \/ \E s \in Sessions, m \in MsgLists, md \in Models : SendGet(s, m, md)
    \/ \E o \in HttpOutcomes, cls \in JsonErrorClasses : SendPost(o, cls)
    \/ \E u \in BOOLEAN : ClearCache(u)
    \/ ShowCacheInfo

Spec == Init /\ [][Next]_vars

\* One process that starts without a cache file, observed with lastOk.
InitLogged ==
    /\ Init
    /\ file = NoFile

NextLogged ==
    \/ Startup
    \/ \E t \in Times : Tick(t)
    \/ \E s \in Sessions, m \in MsgLists, md \in Models : SendGet(s, m, md)
    \/ \E o \in HttpOutcomes, cls \in JsonErrorClasses : SendPostLogged(o, cls)
    \/ ClearCache(TRUE)

SpecLogged == InitLogged /\ [][NextLogged]_vars

\* What the chat endpoint does in the session view.
StreamOutcomes ==
    [kind : {"exception"}, exc : {"ReadTimeout"}, status : {0}, text : {""}]
        \cup
    [kind : {"response"}, exc : {""}, status : {200},
     text : WordyBodies \cup {"{}", "null"}]
        \cup
    [kind : {"response"}, exc : {""}, status : {500}, text : {"{}"}]

\* One process with its chat sessions: each starts, then sends the same
\* first turn with the model it has selected, and is streamed the answer.
\* No I/O fault is injected and the clock stands still.
InitStream ==
    /\ proc = "boot"
    /\ now = 0
    /\ api_cache = EmptyCache
    /\ file = NoFile
    /\ call = NoCall
    /\ faults = MaxFaults
    /\ lastOk = NoLog
    /\ stream = [s \in Sessions |-> NoStream]
    /\ message_history = [s \in Sessions |-> <<>>]
    /\ tasks = [h \in Tasks |-> NoTask]
    /\ last = [op |-> "init", mem |-> EmptyCache, clean |-> TRUE]

NextStream ==
    \/ Startup
    \/ \E s \in Sessions, o \in ModelOutcomes, cls \in JsonErrorClasses :
          StartChat(s, o, cls)
    \/ \E s \in Sessions, m \in MsgLists, md \in Models : StreamGet(s, m, md)
    \/ \E o \in StreamOutcomes : StreamPost(o, "RequestException")
    \/ \E s \in Sessions : Emit(s)
    \/ ShowCacheInfo
    \/ ClearCache(TRUE)

SpecStream == InitStream /\ [][NextStream]_vars

\* What the chat endpoint does in the conversation view.
HistoryOutcomes ==
    [kind : {"response"}, exc : {""}, status : {200},
     text : {"{\"message\": \"ok\"}"}]
        \cup
    [kind : {"response"}, exc : {""}, status : {500}, text : {"{}"}]

\* One process with its chat sessions and their conversations: messages
\* and commands arrive at any time, also while earlier messages of the same
\* session are being answered; the clock advances by the cache duration.
\* The models request of start_chat fails in transport, which leaves the
\* default model as the only one.  No I/O fault is injected.
NextHistory ==
    \/ Startup
    \/ Tick(CACHE_DURATION)
    \/ \E s \in Sessions, o \in {m \in ModelOutcomes : m.kind = "exception"} :
          StartChat(s, o, "RequestException")
    \/ \E h \in Tasks, s \in Sessions, u \in UserInputs : Main(h, s, u)
    \/ \E h \in Tasks : TaskGet(h)
    \/ \E o \in HistoryOutcomes : TaskPost(o, "RequestException")
    \/ \E h \in Tasks : TaskEmit(h)
    \/ \E h \in Tasks : TaskFinish(h)

SpecHistory == InitStream /\ [][NextHistory]_vars

----------------------------------------------------------------------------
(* Properties                                                              *)

IsErrorValue(v) == v.type = "dict" /\ v.status = "error"

IsPayload(v) == v \in {ResponseJson(b) : b \in {t \in Bodies : Decodable(t)}}

Fresh(cache, k, t) ==
    k \in DOMAIN cache /\ t - cache[k].timestamp < CACHE_DURATION

\* C1: a send_chat_message whose key has an unexpired entry returns that
\* entry's response, starts no network request, and leaves the dictionary
\* and the file as they were.
C1_FreshEntryServedWithoutNetwork ==
    [][(last'.op = "get" /\ Fresh(api_cache, last'.key, now))
          => /\ last'.done
             /\ ~last'.network
             /\ call' = NoCall
             /\ last'.result = api_cache[last'.key].response
             /\ api_cache' = api_cache
             /\ file' = file]_vars

\* C2: once a call of one session got a decoded 2xx result for a key, a
\* call of another session for the same key, made less than CACHE_DURATION
\* later with no clear in between, returns that result from the cache and
\* starts no network request.
C2_OtherSessionServedFromCache ==
    (/\ last.op = "get"
     /\ lastOk.session # ""
     /\ lastOk.session # last.session
     /\ lastOk.key = last.key
     /\ last.start - lastOk.time < CACHE_DURATION)
        => /\ last.done
           /\ ~last.network
           /\ last.result = lastOk.response

\* C3: a lookup of an entry aged CACHE_DURATION or more returns None and
\* removes exactly that entry; the counts shown afterwards are one lower.
C3_ExpiredEntryEvicted ==
    [][(/\ last'.op = "get"
        /\ last'.key \in DOMAIN api_cache
        /\ now - api_cache[last'.key].timestamp >= CACHE_DURATION)
          => /\ last'.got = None
             /\ api_cache' = Remove(api_cache, last'.key)
             /\ Stats(api_cache', now').total
                    = Cardinality(DOMAIN api_cache) - 1]_vars

C3_Witness ==
    /\ last.op = "get"
    /\ last.branch = "EXPIRED"
    /\ last.age = CACHE_DURATION
    /\ api_cache # EmptyCache

\* C4: the lookup of a key that was set, made before the entry expires,
\* gives back the stored response, and the chat client takes it as a hit
\* (it returns it without a network request), whatever the response is.
C4_SetThenGetIsHit ==
    [][(last'.op = "get" /\ Fresh(api_cache, last'.key, now))
          => /\ last'.branch = "HIT"
             /\ last'.got = api_cache[last'.key].response
             /\ last'.done]_vars

\* C5: no entry of the dictionary holds an error value, and a call that
\* returns an error value leaves every entry as it was.
C5_NoErrorCached ==
    /\ [](\A k \in DOMAIN api_cache : ~IsErrorValue(api_cache[k].response))
    /\ [][(last'.op = "post" /\ IsErrorValue(last'.result))
             => (api_cache' = api_cache /\ file' = file)]_vars
    /\ [][last'.op = "get"
             => \A k \in DOMAIN api_cache' :
                    k \in DOMAIN api_cache /\ api_cache'[k] = api_cache[k]]_vars

C5_Witness ==
    /\ last.op = "post"
    /\ last.outcome.kind = "response"
    /\ IsErrorValue(last.result)
    /\ api_cache # EmptyCache

\* C6: a call that missed the cache and got a 2xx status with a decodable
\* body leaves an entry under its key holding the decoded payload and the
\* current time, and returns that payload.
C6_Any2xxCached ==
    (/\ last.op = "post"
     /\ last.outcome.kind = "response"
     /\ last.outcome.status \in 200..299
     /\ Decodable(last.outcome.text))
        => /\ last.key \in DOMAIN api_cache
           /\ api_cache[last.key] =
                 [response |-> ResponseJson(last.outcome.text),
                  timestamp |-> now]
           /\ last.result = ResponseJson(last.outcome.text)

\* C7: a call that missed the cache and got a status outside 2xx returns
\* an error value whose description carries that status and the raw body,
\* whatever the body is.
C7_Non2xxReportsStatusAndBody ==
    (/\ last.op = "post"
     /\ last.outcome.kind = "response"
     /\ last.outcome.status \notin 200..299)
        => /\ IsErrorValue(last.result)
           /\ last.result.error.code = last.outcome.status
           /\ last.result.error.text = last.outcome.text

\* C8: whatever the network call does, the call returns a payload or an
\* error value and lets no exception escape; after a transport fault the
\* error value carries the fault's description; a call in flight can
\* always return.
C8_NoFaultPropagates ==
    /\ (last.op \in {"get", "post"} /\ last.done)
          => /\ last.result # Propagated
             /\ (IsPayload(last.result) \/ IsErrorValue(last.result))
    /\ (last.op = "post" /\ last.outcome.kind = "exception")
          => /\ IsErrorValue(last.result)
             /\ last.result.error.text = last.outcome.exc
    /\ (last.op = "get" /\ ~last.done) => call # NoCall
    /\ (proc = "running" /\ call # NoCall)
          => \A o \in HttpOutcomes : ENABLED SendPost(o, "RequestException")

C8_Witness ==
    /\ last.op = "post"
    /\ last.outcome.kind = "response"
    /\ ~Decodable(last.outcome.text)
    /\ last.result = OtherError("Expecting value")

\* C9: while no persist or unlink has failed, loading the file gives
\* exactly the dictionary in memory.
C9_FileMirrorsMemory ==
    (proc = "running" /\ faults = 0)
        => /\ load_cache_from_file(file).kind = "dict"
           /\ load_cache_from_file(file).value = api_cache

C9_Witness ==
    /\ proc = "running"
    /\ faults = 0
    /\ last.op = "get"
    /\ last.branch = "EXPIRED"
    /\ file.kind = "pickle"
    /\ api_cache # EmptyCache

\* C10: after a restart from the file the previous process wrote, every
\* entry of that process that has not expired is in the dictionary with the
\* response and the timestamp it had, and a lookup answers as it would
\* have answered before the restart.
C10_RestartKeepsEntries ==
    (/\ last.op = "startup"
     /\ ~last.crashed
     /\ last.prevClean)
        => \A k \in DOMAIN last.prev :
              Fresh(last.prev, k, now)
                 => /\ k \in DOMAIN api_cache
                    /\ api_cache[k] = last.prev[k]
                    /\ get_cached_response(api_cache, k, now).branch = "HIT"
                    /\ get_cached_response(api_cache, k, now).value
                           = last.prev[k].response

C10_Witness ==
    /\ last.op = "startup"
    /\ ~last.crashed
    /\ last.prevClean
    /\ \E k \in DOMAIN last.prev :
          /\ Fresh(last.prev, k, now)
          /\ now > last.prev[k].timestamp
          /\ api_cache[k] = last.prev[k]
    /\ \E k \in DOMAIN last.prev : ~Fresh(last.prev, k, now)

\* C11: a clear that ends without reporting an error leaves the dictionary
\* empty and no cache file, so that load_cache_from_file gives the empty
\* dictionary; from then on, until a call caches a response, every step
\* (a restart and startup included) keeps both so.  A clear whose unlink
\* raised reports the error and leaves the dictionary empty.
C11_ClearEmptiesStoreAndFile ==
    /\ [](last.op = "clear"
            => /\ api_cache = EmptyCache
               /\ last.unlinked
                    => /\ file = NoFile
                       /\ load_cache_from_file(file)
                              = [kind |-> "dict", value |-> EmptyCache])
    /\ [][(/\ file = NoFile
           /\ api_cache = EmptyCache
           /\ ~(last'.op = "post" /\ last'.cached))
             => (file' = NoFile /\ api_cache' = EmptyCache)]_vars

C11_Witness ==
    /\ last.op = "clear"
    /\ last.unlinked
    /\ last.cache_count > 0
    /\ last.file0.kind = "pickle"
    /\ load_cache_from_file(last.file0).value # EmptyCache

\* C12: a persist that fails, after a set or after the removal of an
\* expired entry, raises nothing to the caller: the call that cached
\* returns the payload and the entry is in the dictionary, where a lookup
\* finds it; the lookup that expired an entry has removed it and goes on to
\* the network.  Every lookup answers from the dictionary, whatever the
\* file holds.
C12_PersistFailureSwallowed ==
    /\ []((last.op = "post" /\ last.cached /\ last.save # "ok")
            => /\ last.done
               /\ last.result = ResponseJson(last.outcome.text)
               /\ last.key \in DOMAIN api_cache
               /\ api_cache[last.key] = [response |-> last.result,
                                         timestamp |-> now]
               /\ get_cached_response(api_cache, last.key, now).branch = "HIT"
               /\ get_cached_response(api_cache, last.key, now).value
                      = last.result)
    /\ []((last.op = "get" /\ last.branch = "EXPIRED" /\ last.save # "ok")
            => /\ last.key \notin DOMAIN api_cache
               /\ last.got = None
               /\ ~last.done
               /\ call # NoCall)
    /\ [][last'.op = "get"
            => /\ Fresh(api_cache, last'.key, now)
                    => (/\ last'.branch = "HIT"
                        /\ last'.got = api_cache[last'.key].response)
               /\ last'.key \notin DOMAIN api_cache
                    => last'.branch = "MISS"]_vars

\* A hit on an entry whose persist failed: the file does not hold it.
C12_Witness ==
    /\ last.op = "get"
    /\ last.branch = "HIT"
    /\ last.got # None
    /\ faults > 0
    /\ last.key \notin DOMAIN load_cache_from_file(file).value

\* C13: whatever the cache file holds when the process starts, startup
\* ends with the process running, and with an empty dictionary when the
\* file holds no cache mapping.
C13_StartupCompletesForAnyFile ==
    last.op = "startup"
        => /\ ~last.crashed
           /\ proc = "running"
           /\ last.file0.kind # "pickle" => api_cache = EmptyCache

\* C14: after startup at time now the dictionary holds exactly the loaded
\* entries younger than CACHE_DURATION, each as loaded; the file is saved
\* if and only if an entry was removed, and it then holds that dictionary
\* unless the write itself failed; otherwise the file is not touched.
C14_StartupPrune ==
    (last.op = "startup" /\ ~last.crashed)
        => /\ DOMAIN api_cache =
                  {k \in DOMAIN last.loaded :
                      now - last.loaded[k].timestamp < CACHE_DURATION}
           /\ \A k \in DOMAIN api_cache : api_cache[k] = last.loaded[k]
           /\ last.saved <=> (DOMAIN api_cache # DOMAIN last.loaded)
           /\ ~last.saved => file = last.file0
           /\ (last.saved /\ last.save \in {"ok", "copy_fail"})
                 => file = PickleDump(api_cache)

C14_Witness ==
    /\ last.op = "startup"
    /\ ~last.crashed
    /\ last.saved
    /\ last.save = "ok"
    /\ api_cache # EmptyCache
    /\ \E k \in DOMAIN last.loaded :
          now - last.loaded[k].timestamp = CACHE_DURATION
    /\ file = PickleDump(api_cache)
    /\ file # last.file0

\* C18: showing the cache statistics changes neither the dictionary nor
\* the file (expired entries stay), and the counts shown are the number of
\* entries, the number of them younger than CACHE_DURATION and the rest.
C18_StatsReadOnly ==
    [][last'.op = "stats"
         => /\ api_cache' = api_cache
            /\ file' = file
            /\ last'.stats.total = Cardinality(DOMAIN api_cache)
            /\ last'.stats.active =
                   Cardinality({k \in DOMAIN api_cache :
                                   now - api_cache[k].timestamp < CACHE_DURATION})
            /\ last'.stats.total = last'.stats.active + last'.stats.expired]_vars

C18_Witness ==
    /\ last.op = "stats"
    /\ last.stats.active > 0
    /\ last.stats.expired > 0
    /\ \E k \in DOMAIN api_cache : ~Fresh(api_cache, k, now)

\* C15: the key of a request is the key of the same messages and model
\* under every other session id, and under none; every key of the
\* dictionary is such a key.
C15_KeyIgnoresSession ==
    /\ last.op = "get"
          => \A s \in Sessions \cup {"None"} :
                get_cache_key(last.messages, s, last.model) = last.key
    /\ \A k \in DOMAIN api_cache :
          \E m \in MsgLists, md \in Models :
             \A s \in Sessions \cup {"None"} : k = get_cache_key(m, s, md)

\* A session is served the entry another session's request stored.
C15_Witness ==
    /\ last.op = "get"
    /\ last.branch = "HIT"
    /\ last.got # None
    /\ lastOk.session \notin {"", last.session}
    /\ lastOk.key = last.key
    /\ lastOk.response = last.got

\* C16: while the call of one session that missed the cache is waiting
\* for the network, another session that is ready to send the same
\* messages and model can do its own lookup (and miss as well).
C16_BothSessionsCanMiss ==
    (/\ proc = "running"
     /\ call # NoCall
     /\ last.op = "get"
     /\ last.branch = "MISS")
        => \A s \in Sessions \ {call.session} :
              stream[s].phase \in {"idle", "done"}
                 => ENABLED StreamGet(s, last.messages, last.model)

\* C17: while a call is waiting for the network, the handlers of the other
\* sessions can run: cache-info, clear-cache, the next token of a stream.
C17_OthersRunDuringNetworkCall ==
    (proc = "running" /\ call # NoCall)
        => /\ ENABLED ShowCacheInfo
           /\ ENABLED ClearCache(TRUE)
           /\ \A s \in Sessions \ {call.session} :
                 stream[s].phase = "streaming" => ENABLED Emit(s)

ModelsFailed(o) ==
    \/ o.kind = "exception"
    \/ o.status \notin 200..299
    \/ ~ModelsDecodable(o.text)

\* C19: when the models request fails (transport fault, status outside
\* 2xx, undecodable body), get_available_models raises nothing and returns
\* an error description together with the mapping of the default model
\* alone.
C19_ModelsFallback ==
    (last.op = "models" /\ ModelsFailed(last.outcome))
        => /\ last.result # Propagated
           /\ last.result.type = "dict"
           /\ last.result.error # NoErr
           /\ DOMAIN last.result.models = {DEFAULT_MODEL}
           /\ last.result.models[DEFAULT_MODEL] = DEFAULT_MODEL

C19_Witness ==
    /\ last.op = "models"
    /\ last.outcome.kind = "response"
    /\ last.outcome.status = 200
    /\ ~ModelsDecodable(last.outcome.text)
    /\ last.result.error.prefix = "Error fetching models"
    /\ last.result.models = FallbackModels

HasContent(response) ==
    /\ response # None
    /\ response.status # "error"
    /\ MessageContent(response) # <<>>

\* C20: a session is streamed nothing while its call is awaited; a token
\* is emitted only for a response that send_chat_message has returned;
\* for a response that is no error and has message content, the tokens
\* emitted so far spell a prefix of the content, and when the stream ends
\* they spell the content, one token per word, whether the response came
\* from the cache or from the network.
C20_StreamSpellsContent ==
    /\ [](\A s \in Sessions :
            /\ stream[s].phase = "waiting" <=> call.session = s
            /\ stream[s].phase \in {"new", "idle", "waiting"}
                  => stream[s].sent = <<>>
            /\ (stream[s].phase \in {"streaming", "done"}
                    /\ HasContent(stream[s].response))
                  => LET content == MessageContent(stream[s].response)
                         shown == Concat(stream[s].sent)
                     IN  /\ Len(shown) <= Len(content)
                         /\ shown = SubSeq(content, 1, Len(shown))
                         /\ stream[s].phase = "done"
                               => /\ shown = content
                                  /\ Len(stream[s].sent) =
                                        1 + Cardinality(
                                               {i \in 1..Len(content) :
                                                   content[i] = " "}))
    /\ [][last'.op = "emit"
            => /\ call = NoCall
               /\ stream[last'.session].phase = "streaming"
               /\ stream'[last'.session].response
                      = stream[last'.session].response
               /\ Len(stream'[last'.session].sent)
                      = Len(stream[last'.session].sent) + 1]_vars

\* The same answer streamed to the session that fetched it and to the one
\* served from the cache.
C20_Witness ==
    \E s \in Sessions, t \in Sessions :
        /\ stream[s].phase = "done"
        /\ stream[t].phase = "done"
        /\ ~stream[s].hit
        /\ stream[t].hit
        /\ stream[s].response = stream[t].response
        /\ MessageContent(stream[t].response) = Chars("a  b c")
        /\ Len(stream[t].sent) = 4
        /\ stream[s].sent = stream[t].sent

\* C21: once a "/cleanup-cache" message has been handled, no entry that
\* had expired when the message arrived is left in the dictionary.
C21_CleanupCommandPrunes ==
    (last.op = "finish" /\ last.user_input = "/cleanup-cache")
        => \A k \in DOMAIN api_cache :
              last.start - api_cache[k].timestamp < CACHE_DURATION

\* Even length, roles alternating from "user".
HistoryIsPairs(history) ==
    /\ Len(history) % 2 = 0
    /\ \A i \in 1..Len(history) :
          history[i].role = IF i % 2 = 1 THEN "user" ELSE "assistant"

\* The step appends to one session's history the pair of the message that
\* has just been answered.
AppendsPair ==
    /\ last'.op = "finish"
    /\ last'.response.status # "error"
    /\ message_history' =
          [message_history EXCEPT ![last'.session] =
              Append(Append(@, UserTurn(last'.user_input)),
                     AssistantTurn(MessageText(last'.response)))]

\* Every history is a sequence of (user, assistant) pairs and changes only
\* by the pair of an answered message; an error appends nothing.
HistoryChangesByPairs ==
    /\ [](\A s \in Sessions : HistoryIsPairs(message_history[s]))
    /\ [][message_history' # message_history => AppendsPair]_vars
    /\ [][(last'.op = "finish" /\ last'.response.status = "error")
             => message_history' = message_history]_vars

\* C22: every history is a sequence of (user, assistant) pairs; it changes
\* only by the pair of a message that got a response that is no error; a
\* message that ends in an error, and a slash command, leave it as it was;
\* also with several messages of one session in progress.
C22_HistoryOfPairs ==
    /\ HistoryChangesByPairs
    /\ [][(last'.op \in {"main", "finish"}
              /\ IsSlashCommand(last'.user_input))
             => message_history' = message_history]_vars

\* Two messages of one session in progress at once, both answered.
HistoryWitness ==
    \E s \in Sessions :
        /\ Len(message_history[s]) = 4
        /\ last.op = "finish"
        /\ last.session = s
        /\ last.appended

====
